---- MODULE Spec2Model ----
(***************************************************************************)
(* Model of the botologist IRC client core (src/botologist/irc.py and      *)
(* src/botologist/bot.py).                                                 *)
(*                                                                         *)
(* The module holds several specifications over one set of variables, one  *)
(* per part of the program; a specification leaves the variables of the    *)
(* other parts at their constructed values.                                *)
(*                                                                         *)
(*   Spec         Bot command dispatch and throttle, with the tick Timer   *)
(*   SpecResolve  Bot._handle_command resolution over many registries      *)
(*   SpecReply    Bot._call_repliers and the reply throttle                *)
(*   SpecChan     irc.Channel membership maps, driven by handle_msg        *)
(*   SpecConn     irc.Connection: sockets, threads, reconnect and ping     *)
(*                Timers                                                   *)
(*   SpecTick     Bot._tick step by step, beside the message handlers      *)
(*   SpecQuit     SpecConn with the whole of Connection.quit               *)
(*   SpecSend     Bot._send_msg over the shapes of its arguments           *)
(*   SpecTest     the scenario of test_matches_command_shorthand           *)
(*   SpecRecv     IRCSocket.recv, read by read                             *)
(*   SpecLoop     Connection.loop and its error handler                    *)
(*   SpecWelcome  the tick Timers over several welcomes                    *)
(*   SpecThreads  Bot._call_command on concurrent threads, beside _tick    *)
(***************************************************************************)
EXTENDS Integers, Sequences, FiniteSets, TLC

VARIABLES
    chans,          \* Connection.channels: channel name -> [host_map, nick_map]
    now,            \* datetime.datetime.now(), in whole seconds
    joined,         \* the bot's channel is in Connection.channels (join_channel ran)
    timers,         \* deadlines of the started, not yet fired tick Timers
    commands,       \* bot.Channel.commands of the bot's channel (its names)
    command_log,    \* Bot._command_log: command string -> time
    last_command,   \* Bot._last_command: <<>> (None) or <<host, command, args>>
    reply_log,      \* Bot._reply_log: channel -> (reply text -> time)
    ev,             \* observation: what the last step's handler or call did
    prev,           \* history: the last command message dispatched
    ticked,         \* history: Bot._tick ran since that message
    tick_sent,      \* observation: the Connection.send_msg calls of the last tick
    fires,          \* history: <<host, command, args>> -> time of a non-admin's
                    \* handler run less than SPAM_THROTTLE seconds ago
    handled,        \* SpecResolve: messages handled so far
    tick_thread,    \* SpecTick: the position of the thread running Bot._tick
    conn,           \* irc.Connection and the sockets, Timers and threads of
                    \* the process
    cmd_threads,    \* SpecThreads: the threads running Bot._call_command
    said            \* history: <<channel, text>> -> time of the last non-admin
                    \* message for which a replier returned the text, if
                    \* that was less than SPAM_THROTTLE seconds ago

chanvars == <<chans>>

connvars == <<conn>>

botvars == <<now, joined, timers, commands, command_log, last_command,
             reply_log, ev, prev, ticked, tick_sent, fires, handled,
             tick_thread, said, cmd_threads>>

vars == <<chans, now, joined, timers, commands, command_log, last_command,
          reply_log, ev, prev, ticked, tick_sent, fires, handled, conn,
          tick_thread, said, cmd_threads>>

None == "None"

(***************************************************************************)
(* Python dict helpers: a dict is a function whose DOMAIN is its key set.  *)
(***************************************************************************)
EmptyDict == [k \in {} |-> None]

DictSet(d, k, v) == [x \in (DOMAIN d) \cup {k} |-> IF x = k THEN v ELSE d[x]]

DictDel(d, k) == [x \in (DOMAIN d) \ {k} |-> d[x]]

\* Python values of the fields of a Connection: None, False, a Timer, an
\* IRCSocket
PyNone == [py |-> "None"]

PyFalse == [py |-> "False"]

TimerRef(t) == [py |-> "Timer", id |-> t]

SocketRef(k) == [py |-> "IRCSocket", id |-> k]

\* Connection.__init__; raised, over and new are scratch fields of a step
\* (an exception is propagating; a bound of the exploration was hit; the
\* Timer just started), started and sock_error are history
NewConnection ==
    [irc_socket |-> PyNone, quitting |-> FALSE, reconnect_timer |-> PyFalse,
     ping_timer |-> PyNone, ping_response_timer |-> PyNone,
     socks |-> EmptyDict, pending |-> EmptyDict, threads |-> <<>>,
     raised |-> FALSE, over |-> FALSE, new |-> 0,
     started |-> FALSE, sock_error |-> "none"]

(***************************************************************************)
(* irc.User: the host is stripped up to and including an '@'.  Hosts are   *)
(* modelled by a table of the strings the model uses.                      *)
(***************************************************************************)
Hosts == {"h1", "h2"}

Nicks == {"a", "b"}

BotNick == "bot"

\* spellings of a host as an argument: bare, or ident@host
HostArgs == {"h1", "h2", "i@h1", "i@h2"}

\* host[host.index('@')+1:] when '@' in host
StripAt(h) ==
    CASE h = "i@h1" -> "h1"
      [] h = "i@h2" -> "h2"
      [] OTHER -> h

User(nick, host) == [nick |-> nick, host |-> StripAt(host)]

ChanNames == {"#x", "#y"}

(***************************************************************************)
(* irc.Channel                                                             *)
(***************************************************************************)
NewChannel == [host_map |-> EmptyDict, nick_map |-> EmptyDict]

add_user(ch, user) ==
    [ch EXCEPT !.host_map = DictSet(@, user.host, user.nick),
               !.nick_map = DictSet(@, user.nick, user.host)]

\* Python's False as a return value where a string is returned otherwise
False == "False"

\* returns the nick, or False
find_nick_from_host(ch, host) ==
    LET h == StripAt(host)
    IN  IF h \in DOMAIN ch.host_map THEN ch.host_map[h] ELSE False

\* remove_user(nick=None, host=None); the caller passes at least one
remove_user(ch, nick0, host0) ==
    LET h0 == IF host0 # None THEN StripAt(host0) ELSE None
        h1 == IF nick0 # None /\ nick0 \in DOMAIN ch.nick_map
              THEN ch.nick_map[nick0] ELSE h0
        n1 == IF h1 # None /\ h1 \in DOMAIN ch.host_map
              THEN ch.host_map[h1] ELSE nick0
        nm == IF n1 # None /\ n1 \in DOMAIN ch.nick_map
              THEN DictDel(ch.nick_map, n1) ELSE ch.nick_map
        hm == IF h1 # None /\ h1 \in DOMAIN ch.host_map
              THEN DictDel(ch.host_map, h1) ELSE ch.host_map
    IN  [ch EXCEPT !.host_map = hm, !.nick_map = nm]

update_nick(ch, user, new_nick) ==
    LET nm0 == IF user.nick \in DOMAIN ch.nick_map
               THEN DictDel(ch.nick_map, user.nick) ELSE ch.nick_map
    IN  [ch EXCEPT !.nick_map = DictSet(nm0, new_nick, user.host),
                   !.host_map = DictSet(@, user.host, new_nick)]

(***************************************************************************)
(* Strings whose characters matter (command words) are sequences of        *)
(* one-character strings.                                                  *)
(***************************************************************************)
\* Bot.CMD_PREFIX
CMD_PREFIX == "!"

\* str.lower() on the characters the model uses
LowerChar(c) ==
    CASE c = "R" -> "r"
      [] c = "O" -> "o"
      [] c = "L" -> "l"
      [] OTHER -> c

lower(s) == [i \in 1..Len(s) |-> LowerChar(s[i])]

\* str.startswith
startswith(s, prefix) ==
    /\ Len(prefix) <= Len(s)
    /\ SubSeq(s, 1, Len(prefix)) = prefix

(***************************************************************************)
(* Time.  datetime values are whole seconds; timedelta.seconds is the      *)
(* seconds field of the normalised timedelta (days, seconds, microseconds):*)
(* the difference modulo one day.                                          *)
(***************************************************************************)
SecondsPerDay == 86400

timedelta_seconds(diff) == diff % SecondsPerDay

\* Bot.SPAM_THROTTLE
SPAM_THROTTLE == 2

\* Bot.TICK_INTERVAL
TICK_INTERVAL == 120

\* the factor of the repeat penalty in Bot._call_command
REPEAT_FACTOR == 3

(***************************************************************************)
(* The bot's configuration: one channel, its command registry (a name      *)
(* stands for its handler), the admin and ban lists.                       *)
(***************************************************************************)
BotChan == "#x"

roll == <<"r", "o", "l", "l">>

repo == <<"r", "e", "p", "o">>

\* channel.commands of BotChan as configured (two of the commands
\* plugins.default registers)
Commands == {roll, repo}

\* Bot.admins, bot.Channel.admins of BotChan, Bot.bans
BotAdmins == {"h3"}

ChanAdmins == {"h2"}

Bans == {"h4"}

\* faulty variant: the admins of the channel are forgotten
is_admin_m(host) == host \in BotAdmins

\* (message.user.host in self.admins or message.user.host in message.channel.admins)
is_admin(host) == host \in BotAdmins \/ host \in ChanAdmins

\* a handler's or replier's return value: nothing, a text, a list of texts
RNone == [kind |-> "none", val |-> <<>>]

RStr(t) == [kind |-> "str", val |-> <<t>>]

RList(ts) == [kind |-> "list", val |-> ts]

\* Python truthiness of a return value ('' and [] are falsy)
truthy(r) == r.kind # "none" /\ r.val # <<>> /\ (r.kind = "str" => r.val[1] # "")

(***************************************************************************)
(* Bot._handle_command, the resolution of the typed word (lines 338-357):  *)
(* found, the registry name whose handler is taken, and the command field  *)
(* of the CommandMessage.                                                  *)
(***************************************************************************)
NoCmd == <<>>

matching_commands(cmds, cmd_string) ==
    {cmd \in cmds : startswith(cmd, cmd_string)}

\* faulty variant: the command field keeps the word as typed
resolve_typed(cmds, word) ==
    LET cmd_string == lower(Tail(word))
        matching == matching_commands(cmds, cmd_string)
    IN  IF cmd_string \in cmds
        THEN [found |-> TRUE, func |-> cmd_string, command |-> word]
        ELSE IF Cardinality(matching) # 1
        THEN [found |-> FALSE, func |-> NoCmd, command |-> NoCmd]
        ELSE [found |-> TRUE, func |-> CHOOSE c \in matching : TRUE,
              command |-> word]

\* faulty variant: no exact match before the prefix match
resolve_m(cmds, word) ==
    LET cmd_string == lower(Tail(word))
        matching == matching_commands(cmds, cmd_string)
    IN  IF Cardinality(matching) # 1
        THEN [found |-> FALSE, func |-> NoCmd, command |-> NoCmd]
        ELSE LET m == CHOOSE c \in matching : TRUE
             IN  [found |-> TRUE, func |-> m, command |-> <<CMD_PREFIX>> \o m]

resolve(cmds, word) ==
    LET cmd_string == lower(Tail(word))
        matching == matching_commands(cmds, cmd_string)
    IN  IF cmd_string \in cmds
        THEN [found |-> TRUE, func |-> cmd_string, command |-> word]
        ELSE IF Cardinality(matching) # 1
        THEN [found |-> FALSE, func |-> NoCmd, command |-> NoCmd]
        ELSE LET m == CHOOSE c \in matching : TRUE
             IN  [found |-> TRUE, func |-> m, command |-> <<CMD_PREFIX>> \o m]

(***************************************************************************)
(* Bot._call_command, the spam check (lines 376-385): TRUE when the        *)
(* invocation is throttled.                                                *)
(***************************************************************************)
\* faulty variant: the threshold of a repeat is raised to the third power
threshold_m(last, host, command, args) ==
    IF last = <<host, command, args>>
    THEN SPAM_THROTTLE * SPAM_THROTTLE * SPAM_THROTTLE
    ELSE SPAM_THROTTLE

threshold(last, host, command, args) ==
    IF last = <<host, command, args>>
    THEN SPAM_THROTTLE * REPEAT_FACTOR
    ELSE SPAM_THROTTLE

\* faulty variant: <= for <
throttled_m(log, last, t, host, command, args, admin) ==
    /\ command \in DOMAIN log
    /\ ~admin
    /\ timedelta_seconds(t - log[command]) <= threshold(last, host, command, args)

throttled(log, last, t, host, command, args, admin) ==
    /\ command \in DOMAIN log
    /\ ~admin
    /\ timedelta_seconds(t - log[command]) < threshold(last, host, command, args)

\* faulty variant: the log is written before the spam check returns
reaches_log_m(found, drop) == found

\* lines 388-389 are reached when a handler was found and the spam check
\* did not return at line 385
reaches_log(found, drop) == found /\ ~drop

\* faulty variant: the call is not logged
log_call_m(log, command, t) == log

\* self._command_log[command.command] = now
log_call(log, command, t) == DictSet(log, command, t)

(***************************************************************************)
(* Bot._send_msg: one Connection.send_msg call per (message, target) pair. *)
(* msgs is a return value (a text or a list), target a single name.        *)
(***************************************************************************)
send_msg(msgs, target) == [i \in 1..Len(msgs.val) |-> <<target, msgs.val[i]>>]

(***************************************************************************)
(* Bounds of the exploration.                                              *)
(***************************************************************************)
\* time is explored this many seconds into every tick period, and
\* TickSlack seconds before its end
MaxTime == 6

TickSlack == 1

\* the last second explored: MaxTime seconds after the first tick
LastTime == TICK_INTERVAL + MaxTime

InWindow(t) ==
    \/ t % TICK_INTERVAL <= MaxTime
    \/ t % TICK_INTERVAL >= TICK_INTERVAL - TickSlack

\* a started Timer fires at its deadline: time does not pass it
NoTimerBefore(t) == \A i \in 1..Len(timers) : timers[i] >= t

RemoveAt(s, i) == SubSeq(s, 1, i - 1) \o SubSeq(s, i + 1, Len(s))

(***************************************************************************)
(* Inputs                                                                  *)
(***************************************************************************)
\* h1 is an ordinary user, h2 an admin of the channel, h3 an admin of the
\* bot, h4 is banned
Senders == {"h1", "h2", "h3"}

\* target[0] != '#'
is_private(target) == target # BotChan

\* messages Bot._handle_privmsg ignores: <<host, target>>
IgnoredInputs == { <<"h4", BotChan>>, <<"h1", BotNick>> }

\* first words typed: the full name and an abbreviation
TypedWords == { <<"!">> \o roll, <<"!", "r", "o", "l">> }

ArgsSet == { <<>>, <<"6">> }

CmdResults == { RNone, RStr("txt") }

NoEvent == [kind |-> "none"]

(***************************************************************************)
(* Bot._handle_privmsg for a message whose first word starts with the      *)
(* command prefix: _handle_command, _maybe_send_cmd_reply, _call_command,  *)
(* _send_msg.  result is what the handler returns if it is called.  A      *)
(* handler declared threaded runs the same steps on its own thread; here   *)
(* they run as one step.                                                   *)
(***************************************************************************)
handle_command(host, target, word, args, result) ==
    LET admin == is_admin(host)
        r == resolve(commands, word)
        drop == r.found /\ throttled(command_log, last_command, now,
                                     host, r.command, args, admin)
        call == r.found /\ ~drop
        triple == <<host, r.command, args>>
        again == r.found /\ prev # <<>> /\ prev.triple = triple
        logs == reaches_log(r.found, drop)
    IN  /\ last_command' = IF logs THEN triple ELSE last_command
        /\ command_log' = IF logs THEN log_call(command_log, r.command, now)
                          ELSE command_log
        /\ ev' = [kind |-> "cmd", host |-> host, word |-> word, args |-> args,
                  found |-> r.found, func |-> r.func, command |-> r.command,
                  invoked |-> call, at |-> now,
                  sent |-> IF call /\ truthy(result)
                           THEN send_msg(result, target) ELSE <<>>,
                  \* what _call_command read: the logged time of the command
                  \* (-1: not logged) and whether the cursor is this triple
                  logged |-> IF r.found /\ r.command \in DOMAIN command_log
                             THEN command_log[r.command] ELSE -1,
                  repeat |-> r.found /\ last_command = triple,
                  \* seconds since this non-admin triple's handler last ran,
                  \* if that was less than SPAM_THROTTLE seconds ago and no
                  \* tick ran since (-1 otherwise)
                  recent |-> IF r.found /\ triple \in DOMAIN fires
                             THEN now - fires[triple] ELSE -1,
                  \* seconds since the previous command message, if it was
                  \* this triple (-1 otherwise); whether it was invoked;
                  \* whether a tick ran in between
                  gap |-> IF again THEN now - prev.at ELSE -1,
                  first_invoked |-> again /\ prev.invoked,
                  tick_between |-> again /\ ticked]
        /\ prev' = IF r.found
                   THEN [triple |-> triple, at |-> now, invoked |-> call]
                   ELSE prev
        /\ fires' = IF call /\ ~admin THEN DictSet(fires, triple, now) ELSE fires
        /\ ticked' = FALSE
        /\ UNCHANGED <<reply_log, tick_sent, said>>

\* Bot._handle_privmsg (bans, private messages, the admin flag, the route)
handle_privmsg(host, target, word, args, result) ==
    IF host \in Bans \/ is_private(target)
    THEN /\ ev' = NoEvent
         /\ UNCHANGED <<command_log, last_command, reply_log, prev, ticked,
                        tick_sent, fires, said>>
    ELSE handle_command(host, target, word, args, result)

\* Connection.handle_msg calls Bot._handle_privmsg for a PRIVMSG; the channel
\* of a message that is not private must have been joined
Privmsg ==
    \E host \in Senders, word \in TypedWords, args \in ArgsSet :
        /\ joined
        /\ handle_privmsg(host, BotChan, word, args, RStr("txt"))
        /\ UNCHANGED <<now, joined, timers, commands, chans, cmd_threads, conn, tick_thread, handled>>

PrivmsgIgnored ==
    \E inp \in IgnoredInputs, word \in TypedWords :
        /\ joined
        /\ handle_privmsg(inp[1], inp[2], word, <<>>, RStr("txt"))
        /\ UNCHANGED <<now, joined, timers, commands, chans, cmd_threads, conn, tick_thread, handled>>

\* Connection.handle_msg for the 001 line: Client._join_channels and
\* Bot._start_tick_timer.  The server sends 001 once per connection, and
\* this specification follows one connection.
Welcome ==
    /\ ~joined
    /\ joined' = TRUE
    /\ timers' = Append(timers, now + TICK_INTERVAL)
    /\ ev' = NoEvent
    /\ UNCHANGED <<now, commands, command_log, last_command, reply_log, prev,
                   ticked, tick_sent, fires, chans, cmd_threads, conn, tick_thread, handled, said>>

\* Bot._tick, run by a tick Timer at its deadline; ticker_result is what the
\* channel's ticker returns
Tick ==
    \E i \in 1..Len(timers), ticker_result \in CmdResults :
        /\ timers[i] = now
        /\ command_log' = EmptyDict
        /\ reply_log' = [c \in DOMAIN reply_log |-> EmptyDict]
        /\ tick_sent' = IF truthy(ticker_result)
                        THEN send_msg(ticker_result, BotChan) ELSE <<>>
        /\ timers' = Append(RemoveAt(timers, i), now + TICK_INTERVAL)
        /\ ticked' = TRUE
        /\ fires' = EmptyDict
        /\ ev' = NoEvent
        /\ UNCHANGED <<now, joined, commands, last_command, prev, chans, cmd_threads, conn, tick_thread, handled,
                       said>>

\* the histories keep what happened in the last SPAM_THROTTLE seconds
Recent(f, t) ==
    [x \in {y \in DOMAIN f : t - f[y] < SPAM_THROTTLE} |-> f[x]]

\* one second passes (the clock starts at the first welcome)
Advance ==
    /\ joined
    /\ now + 1 <= LastTime
    /\ InWindow(now + 1)
    /\ NoTimerBefore(now + 1)
    /\ now' = now + 1
    /\ fires' = Recent(fires, now + 1)
    /\ said' = Recent(said, now + 1)
    /\ tick_sent' = <<>>
    /\ ev' = NoEvent
    /\ UNCHANGED <<joined, timers, commands, command_log, last_command,
                   reply_log, prev, ticked, chans, cmd_threads, conn, tick_thread, handled>>

\* nothing happens until shortly before the end of the tick period
Skip ==
    LET t == (now \div TICK_INTERVAL) * TICK_INTERVAL + TICK_INTERVAL - TickSlack
    IN  /\ joined
        /\ now % TICK_INTERVAL <= MaxTime
        /\ t <= LastTime
        /\ NoTimerBefore(t)
        /\ now' = t
        /\ fires' = Recent(fires, t)
        /\ said' = Recent(said, t)
        /\ tick_sent' = <<>>
        /\ ev' = NoEvent
        /\ UNCHANGED <<joined, timers, commands, command_log, last_command,
                       reply_log, prev, ticked, chans, cmd_threads, conn, tick_thread, handled>>

\* no thread is running Bot._tick
NoTickThread == [pc |-> "none"]

InitBot ==
    /\ now = 0
    /\ joined = FALSE
    /\ timers = <<>>
    /\ command_log = EmptyDict
    /\ last_command = <<>>
    /\ reply_log = EmptyDict
    /\ ev = NoEvent
    /\ prev = <<>>
    /\ ticked = FALSE
    /\ tick_sent = <<>>
    /\ fires = EmptyDict
    /\ handled = 0
    /\ said = EmptyDict
    /\ conn = NewConnection
    /\ tick_thread = NoTickThread
    /\ cmd_threads = <<>>

InitMembers == chans = [c \in ChanNames |-> NewChannel]

Init == InitBot /\ InitMembers /\ commands = Commands

Next ==
    \/ Privmsg
    \/ PrivmsgIgnored
    \/ Welcome
    \/ Tick
    \/ Advance
    \/ Skip

Spec == Init /\ [][Next]_vars

(***************************************************************************)
(* SpecResolve: command resolution over many registries and typed words.   *)
(* The registry is what plugin registration left in channel.commands; the  *)
(* first MaxMessages messages after the welcome are followed.              *)
(***************************************************************************)
MaxMessages == 1

asdf == <<"a", "s", "d", "f">>

ro == <<"r", "o">>

Names == {asdf, roll, repo, ro}

Registries == SUBSET Names

Prefixes(s) == {SubSeq(s, 1, n) : n \in 0..Len(s)}

\* typed keys: every prefix of a name (the empty one too), every name with
\* one more letter, an unrelated letter, and upper-case spellings
TypedKeys ==
    UNION {Prefixes(n) : n \in Names}
        \cup {n \o <<"g">> : n \in Names}
        \cup { <<"b">>, <<"R">>, <<"R", "O">>, <<"R", "o", "l", "l">> }

AllTypedWords == {<<CMD_PREFIX>> \o k : k \in TypedKeys}

ResolveSenders == {"h1", "h3"}

PrivmsgTyped ==
    \E host \in ResolveSenders, word \in AllTypedWords, result \in CmdResults :
        /\ joined
        /\ handled < MaxMessages
        /\ handled' = handled + 1
        /\ handle_privmsg(host, BotChan, word, <<>>, result)
        /\ UNCHANGED <<now, joined, timers, commands, chans, cmd_threads, conn,
                       tick_thread>>

InitResolve == InitBot /\ InitMembers /\ commands \in Registries

NextResolve ==
    \/ Welcome
    \/ PrivmsgTyped

SpecResolve == InitResolve /\ [][NextResolve]_vars

(***************************************************************************)
(* C2: a handler is selected if and only if the typed key k (the first     *)
(* word without the prefix, lower-cased) is a registered name or a prefix  *)
(* of exactly one registered name, and it is the handler registered under  *)
(* that name; otherwise no handler is invoked and nothing is sent.  A      *)
(* selected handler is invoked unless the throttle drops the invocation.   *)
(***************************************************************************)
AdminHost(h) == h \in BotAdmins \/ h \in ChanAdmins

IsPrefixOf(p, s) == Len(p) <= Len(s) /\ \A i \in 1..Len(p) : p[i] = s[i]

TypedKey(word) == lower(SubSeq(word, 2, Len(word)))

\* the names the claim selects for key k: k itself if registered, else the
\* names k is a prefix of, if there is exactly one
Selected(k) ==
    IF k \in commands THEN {k}
    ELSE LET m == {n \in commands : IsPrefixOf(k, n)}
         IN  IF Cardinality(m) = 1 THEN m ELSE {}

C2_Resolution ==
    ev.kind = "cmd" =>
        LET sel == Selected(TypedKey(ev.word))
        IN  /\ ev.found <=> sel # {}
            /\ ev.found => ev.func \in sel
            /\ ~ev.found => (~ev.invoked /\ ev.sent = <<>>)
            /\ ev.invoked => ev.found
            /\ (ev.found /\ (AdminHost(ev.host) \/ ev.logged = -1)) => ev.invoked

\* an abbreviation that is a prefix of one name only, while the shorter
\* abbreviation "r" is a prefix of three
C2_Witness ==
    /\ ev.kind = "cmd"
    /\ commands = {roll, repo, ro}
    /\ ev.word = <<"!", "r", "e">>
    /\ ev.func = repo
    /\ ev.command = <<"!">> \o repo
    /\ ev.invoked

(***************************************************************************)
(* Claims about the command throttle, checked under Spec.                  *)
(***************************************************************************)
NonAdminCmd(e) == e.kind = "cmd" /\ e.found /\ ~AdminHost(e.host)

AdminCmd(e) == e.kind = "cmd" /\ e.found /\ AdminHost(e.host)

(***************************************************************************)
(* C3, as stated: when a non-admin issues a command and the identical      *)
(* command (same host, command, args) is issued again less than 2 seconds  *)
(* later with no tick in between, the handler is not invoked for the       *)
(* second invocation and nothing is sent for it.                           *)
(***************************************************************************)
C3_SecondDropped ==
    (NonAdminCmd(ev) /\ ev.gap >= 0 /\ ev.gap < 2 /\ ~ev.tick_between)
        => (~ev.invoked /\ ev.sent = <<>>)

(***************************************************************************)
(* C3, amended: when the handler has run for a non-admin's command and the *)
(* identical command is issued again less than 2 seconds later with no     *)
(* tick in between, the handler is not invoked for the second invocation   *)
(* and nothing is sent for it.                                             *)
(***************************************************************************)
C3_SecondDroppedAfterRun ==
    (NonAdminCmd(ev) /\ ev.recent >= 0) => (~ev.invoked /\ ev.sent = <<>>)

C3_Witness ==
    /\ NonAdminCmd(ev)
    /\ ev.recent = 1
    /\ ev.gap = -1
    /\ ~ev.invoked

(***************************************************************************)
(* C4, as stated: when a non-admin issues a command and the identical      *)
(* command is issued again more than 2 seconds after the first, the        *)
(* handler is invoked for both invocations.                                *)
(***************************************************************************)
C4_BothInvoked ==
    (NonAdminCmd(ev) /\ ev.gap > 2) => (ev.first_invoked /\ ev.invoked)

(***************************************************************************)
(* C4, amended: when a non-admin issues a command and the identical        *)
(* command is issued again 6 seconds (3 x 2s) or more after the first,     *)
(* with no other invocation of that command in between, the handler is     *)
(* invoked for the second invocation.                                      *)
(***************************************************************************)
C4_InvokedAfterSix ==
    (NonAdminCmd(ev) /\ ev.gap >= 6) => ev.invoked

C4_Witness ==
    /\ NonAdminCmd(ev)
    /\ ev.gap = 6
    /\ ev.first_invoked
    /\ ~ev.tick_between
    /\ ev.repeat
    /\ ev.invoked

(***************************************************************************)
(* C5: for a sender whose host is in the bot-wide admin list or in the     *)
(* channel's admin list, every resolved command invocation calls the       *)
(* handler, whatever the command log and the cursor contain.               *)
(***************************************************************************)
C5_AdminBypass == AdminCmd(ev) => ev.invoked

C5_Witness ==
    /\ AdminCmd(ev)
    /\ ev.host \in ChanAdmins
    /\ ev.repeat
    /\ ev.logged >= 0
    /\ ev.at - ev.logged < 1
    /\ ev.invoked

(***************************************************************************)
(* C6: a non-admin invocation of a logged command whose (host, command,    *)
(* args) equals the last-command cursor is dropped if and only if less     *)
(* than 6 seconds have passed since the command's logged time; any other   *)
(* non-admin invocation of a logged command is dropped if and only if less *)
(* than 2 seconds have passed.                                             *)
(***************************************************************************)
C6_RepeatPenalty ==
    (NonAdminCmd(ev) /\ ev.logged >= 0) =>
        (~ev.invoked <=> (ev.at - ev.logged < (IF ev.repeat THEN 6 ELSE 2)))

C6_Witness ==
    /\ NonAdminCmd(ev)
    /\ ev.logged >= 0
    /\ ev.repeat
    /\ ev.at - ev.logged = 5
    /\ ~ev.invoked

(***************************************************************************)
(* SpecReply: messages that are no commands, answered by the repliers of   *)
(* the channel (Bot._handle_privmsg lines 329-333, Bot._call_repliers).    *)
(***************************************************************************)
\* the list after list.remove(x): the first occurrence of x is taken out
RECURSIVE list_remove(_, _)
list_remove(lst, x) ==
    IF lst = <<>> THEN <<>>
    ELSE IF Head(lst) = x THEN Tail(lst)
    ELSE <<Head(lst)>> \o list_remove(Tail(lst), x)

\* lines 398-407: the returns of the reply callbacks, in order, put in one list
RECURSIVE collect_replies(_)
collect_replies(results) ==
    IF results = <<>> THEN <<>>
    ELSE LET replies == Head(results)
             rest == collect_replies(Tail(results))
         IN  IF ~truthy(replies) THEN rest ELSE replies.val \o rest

\* lines 410-423: "for reply in final_replies" reads final_replies[i] for
\* i = 0, 1, ... until i reaches the length the list has at that moment,
\* while the body removes from the list (i is 1-based here); log is
\* self._reply_log[channel.channel]
RECURSIVE throttle_replies(_, _, _, _)
throttle_replies(final_replies, log, i, t) ==
    IF i > Len(final_replies)
    THEN [final_replies |-> final_replies, log |-> log]
    ELSE LET reply == final_replies[i]
             drop == /\ reply \in DOMAIN log
                     /\ timedelta_seconds(t - log[reply]) < SPAM_THROTTLE
             kept == IF drop THEN list_remove(final_replies, reply)
                     ELSE final_replies
         IN  throttle_replies(kept, DictSet(log, reply, t), i + 1, t)

\* Bot._call_repliers: the list returned and the new self._reply_log
call_repliers(channel, admin, results, rlog, t) ==
    LET final_replies == collect_replies(results)
        log == IF channel \in DOMAIN rlog THEN rlog[channel] ELSE EmptyDict
        r == throttle_replies(final_replies, log, 1, t)
    IN  IF admin \/ final_replies = <<>>
        THEN [response |-> final_replies, reply_log |-> rlog]
        ELSE [response |-> r.final_replies,
              reply_log |-> DictSet(rlog, channel, r.log)]

Range(f) == {f[i] : i \in DOMAIN f}

\* Bot._handle_privmsg for a message that does not start with CMD_PREFIX
handle_text(host, target, results) ==
    LET admin == is_admin(host)
        r == call_repliers(target, admin, results, reply_log, now)
        batch == Range(collect_replies(results))
    IN  /\ reply_log' = r.reply_log
        /\ ev' = [kind |-> "reply", host |-> host, channel |-> target,
                  at |-> now,
                  returned |-> collect_replies(results),
                  sent |-> IF r.response # <<>>
                           THEN send_msg(RList(r.response), target) ELSE <<>>,
                  \* the texts returned now that were returned for a
                  \* non-admin's message in this channel less than
                  \* SPAM_THROTTLE seconds ago
                  recent |-> {x \in batch : <<target, x>> \in DOMAIN said}]
        /\ said' = IF admin THEN said
                   ELSE [k \in DOMAIN said \cup {<<target, x>> : x \in batch} |->
                            IF k[1] = target /\ k[2] \in batch
                            THEN now ELSE said[k]]
        /\ UNCHANGED <<command_log, last_command, prev, ticked, tick_sent,
                       fires>>

\* what the two repliers of a channel return for a message
ReplierResults ==
    {RNone, RStr("A")} \X {RNone, RStr("B"), RList(<<"B", "A">>)}

ReplySenders == {"h1", "h3"}

PrivmsgText ==
    \E host \in ReplySenders, results \in ReplierResults :
        /\ joined
        /\ handle_text(host, BotChan, results)
        /\ UNCHANGED <<now, joined, timers, commands, chans, cmd_threads, conn, tick_thread, handled>>

NextReply ==
    \/ PrivmsgText
    \/ Welcome
    \/ Tick
    \/ Advance
    \/ Skip

SpecReply == Init /\ [][NextReply]_vars

(***************************************************************************)
(* C7: when a replier returns for a non-admin's message a text that was    *)
(* returned for a non-admin's message in the same channel before, the      *)
(* text is not sent if the earlier message came less than 2 seconds        *)
(* before, and it is sent if the last such message came 2 seconds or more  *)
(* before.                                                                 *)
(***************************************************************************)
SentTexts(e) == {e.sent[i][2] : i \in DOMAIN e.sent}

C7_ReplyThrottle ==
    (ev.kind = "reply" /\ ~AdminHost(ev.host)) =>
        \A x \in Range(ev.returned) :
            /\ x \in ev.recent => x \notin SentTexts(ev)
            /\ x \notin ev.recent => x \in SentTexts(ev)

(***************************************************************************)
(* Connection.handle_msg, the branches that touch the membership maps.     *)
(* The Connection is the one irc.Client builds: on_join and on_privmsg     *)
(* hold no callback.                                                       *)
(***************************************************************************)
\* ":nick!ident@host JOIN #chan"; the bot's own join only sends WHO
HandleJoin ==
    \E c \in ChanNames, n \in Nicks \cup {BotNick}, h \in Hosts :
        IF n = BotNick
        THEN UNCHANGED chans
        ELSE chans' = [chans EXCEPT ![c] = add_user(@, User(n, h))]

\* ":server 352 me #chan ident host server nick ...", a WHO reply (the
\* bot is listed too)
HandleWho ==
    \E c \in ChanNames, n \in Nicks \cup {BotNick}, h \in Hosts :
        chans' = [chans EXCEPT ![c] = add_user(@, User(n, h))]

\* ":old!ident@host NICK :new"
HandleNick ==
    \E n \in Nicks, h \in Hosts, new \in Nicks :
        LET user == User(n, h)
        IN  chans' = [c \in ChanNames |->
                        IF find_nick_from_host(chans[c], user.host) # False
                        THEN update_nick(chans[c], user, new)
                        ELSE chans[c]]

\* ":nick!ident@host PART #chan"
HandlePart ==
    \E c \in ChanNames, n \in Nicks, h \in Hosts :
        chans' = [chans EXCEPT ![c] = remove_user(@, None, User(n, h).host)]

\* ":nick!ident@host QUIT :reason"
HandleQuit ==
    \E n \in Nicks, h \in Hosts :
        LET user == User(n, h)
        IN  chans' = [c \in ChanNames |->
                        IF find_nick_from_host(chans[c], user.host) # False
                        THEN remove_user(chans[c], None, user.host)
                        ELSE chans[c]]

\* ":nick!ident@host PRIVMSG #chan :text": an unknown sender is added
HandlePrivmsgMember ==
    \E c \in ChanNames, n \in Nicks, h \in Hosts :
        LET user == User(n, h)
        IN  /\ user.host \notin DOMAIN chans[c].host_map
            /\ chans' = [chans EXCEPT ![c] = add_user(@, user)]

\* a plugin's call of bot.Channel.remove_user(nick=..., host=...)
ApiRemoveUser ==
    \E c \in ChanNames, n \in Nicks \cup {None}, h \in HostArgs \cup {None} :
        /\ n # None \/ h # None
        /\ chans' = [chans EXCEPT ![c] = remove_user(@, n, h)]

InitChan == InitBot /\ InitMembers /\ commands = Commands

NextChan ==
    \/ HandleJoin /\ UNCHANGED <<botvars, connvars>>
    \/ HandleWho /\ UNCHANGED <<botvars, connvars>>
    \/ HandleNick /\ UNCHANGED <<botvars, connvars>>
    \/ HandlePart /\ UNCHANGED <<botvars, connvars>>
    \/ HandleQuit /\ UNCHANGED <<botvars, connvars>>
    \/ HandlePrivmsgMember /\ UNCHANGED <<botvars, connvars>>
    \/ ApiRemoveUser /\ UNCHANGED <<botvars, connvars>>

SpecChan == InitChan /\ [][NextChan]_vars

(***************************************************************************)
(* C1: in every channel host_map and nick_map are mutual inverses          *)
(* (host_map[h] = n exactly when nick_map[n] = h) and have the same        *)
(* number of entries.                                                      *)
(***************************************************************************)
MapsInverse(ch) ==
    /\ \A h \in DOMAIN ch.host_map :
          /\ ch.host_map[h] \in DOMAIN ch.nick_map
          /\ ch.nick_map[ch.host_map[h]] = h
    /\ \A n \in DOMAIN ch.nick_map :
          /\ ch.nick_map[n] \in DOMAIN ch.host_map
          /\ ch.host_map[ch.nick_map[n]] = n
    /\ Cardinality(DOMAIN ch.host_map) = Cardinality(DOMAIN ch.nick_map)

C1_MapsInverse == \A c \in ChanNames : MapsInverse(chans[c])

(***************************************************************************)
(* SpecConn: irc.Connection with its threads and Timers.  conn holds the   *)
(* fields of the Connection and, of the process, the sockets still         *)
(* referred to (socks), the started Timers that have neither fired nor     *)
(* been cancelled (pending) and the threads running _connect and loop      *)
(* (threads).  A step is one statement group of one thread; a Timer fires  *)
(* at any moment (delays are not modelled).                                *)
(***************************************************************************)
MaxSockets == 3

MaxTimers == 3

MaxThreads == 2

\* Python truthiness of a field holding None, False or an object
truth(v) == v.py \notin {"None", "False"}

Min(S) == CHOOSE x \in S : \A y \in S : x <= y

Restrict(f, S) == [x \in S |-> f[x]]

TimerFields(m) == {m.reconnect_timer, m.ping_timer, m.ping_response_timer}

TimerIds(m) == DOMAIN m.pending \cup {r.id : r \in {x \in TimerFields(m) : truth(x)}}

SocketIds(m) ==
    {m.threads[i].sock : i \in DOMAIN m.threads}
        \cup (IF truth(m.irc_socket) THEN {m.irc_socket.id} ELSE {})

\* the end of a step: objects nothing refers to are forgotten
Finish(m) ==
    [m EXCEPT !.raised = FALSE, !.new = 0,
              !.socks = Restrict(@, DOMAIN @ \cap SocketIds(m))]

\* threading.Timer(delay, func).start()
start_timer(m, func) ==
    LET free == (1..MaxTimers) \ TimerIds(m)
    IN  IF free = {} THEN [m EXCEPT !.over = TRUE]
        ELSE [m EXCEPT !.pending = (Min(free) :> func) @@ @, !.new = Min(free)]

\* Timer.cancel()
cancel(m, ref) == [m EXCEPT !.pending = Restrict(@, DOMAIN @ \ {ref.id})]

\* threading.Thread(target=self._connect).start()
start_thread(m) ==
    IF Len(m.threads) >= MaxThreads THEN [m EXCEPT !.over = TRUE]
    ELSE [m EXCEPT !.threads = Append(@, [pc |-> "connect", sock |-> 0,
                                           lines |-> <<>>])]

\* Connection.disconnect: IRCSocket.close raises on a socket never opened
\* (self.socket is None)
disconnect(m) ==
    LET k == m.irc_socket.id
    IN  IF m.socks[k] = "new" THEN [m EXCEPT !.raised = TRUE]
        ELSE [m EXCEPT !.socks[k] = "closed", !.irc_socket = PyNone]

\* Connection.reconnect(time); delayed is the truth of time
reconnect(m, delayed) ==
    LET m1 == IF truth(m.irc_socket) THEN disconnect(m) ELSE m
        m2 == start_timer(m1, "_connect")
    IN  IF m1.raised THEN m1
        ELSE IF delayed THEN [m2 EXCEPT !.reconnect_timer = TimerRef(m2.new)]
        ELSE start_thread(m1)

\* Connection.send, IRCSocket.send: raises without a socket and on a socket
\* never opened or closed
send(m) ==
    IF ~truth(m.irc_socket) \/ m.socks[m.irc_socket.id] \in {"new", "closed"}
    THEN [m EXCEPT !.raised = TRUE]
    ELSE m

\* Connection.reset_ping_timer
reset_ping_timer(m) ==
    LET m1 == IF truth(m.ping_response_timer)
              THEN [cancel(m, m.ping_response_timer)
                        EXCEPT !.ping_response_timer = PyNone]
              ELSE m
        m2 == IF truth(m1.ping_timer)
              THEN [cancel(m1, m1.ping_timer) EXCEPT !.ping_timer = PyNone]
              ELSE m1
        m3 == start_timer(m2, "send_ping")
    IN  [m3 EXCEPT !.ping_timer = TimerRef(m3.new)]

\* Connection.handle_msg, the lines that touch the connection: "ERROR"
\* stands for both ERROR lines (reconnect(60), reconnect(10))
handle_msg(m, msg) ==
    CASE msg = "PING" -> send(reset_ping_timer(m))
      [] msg = "PONG" -> reset_ping_timer(m)
      [] msg = "ERROR" -> reconnect(m, TRUE)
      [] OTHER -> m

\* what one IRCSocket.recv returns, split into lines
Chunks ==
    { <<"PING">>, <<"PONG">>, <<"001">>, <<"ERROR">>, <<"ERROR", "ERROR">>,
      <<"ERROR", "PING">> }

SetThread(m, i, pc, sock, lines) ==
    [m EXCEPT !.threads[i] = [pc |-> pc, sock |-> sock, lines |-> lines]]

EndThread(m, i) == [m EXCEPT !.threads = RemoveAt(@, i)]

Step(m) ==
    /\ ~m.over
    /\ conn' = Finish(m)
    /\ UNCHANGED <<botvars, chanvars>>

\* Client.run_forever: Connection.connect(server)
ClientConnect ==
    /\ ~conn.started
    /\ LET m1 == IF conn.irc_socket # PyNone THEN disconnect(conn) ELSE conn
       IN  Step([start_thread(m1) EXCEPT !.started = TRUE])

\* Connection._connect, "if self.reconnect_timer: self.reconnect_timer = None"
ThreadCheck ==
    \E i \in DOMAIN conn.threads :
        /\ conn.threads[i].pc = "connect"
        /\ LET m1 == IF truth(conn.reconnect_timer)
                     THEN [conn EXCEPT !.reconnect_timer = PyNone] ELSE conn
           IN  Step(SetThread([m1 EXCEPT !.sock_error = "none"], i, "new", 0, <<>>))

\* Connection._connect, "self.irc_socket = IRCSocket(self.server)"
ThreadNew ==
    \E i \in DOMAIN conn.threads :
        /\ conn.threads[i].pc = "new"
        /\ LET free == (1..MaxSockets) \ DOMAIN conn.socks
               k == Min(free)
           IN  /\ free # {}
               /\ Step(SetThread([conn EXCEPT !.socks = (k :> "new") @@ @,
                                              !.irc_socket = SocketRef(k)],
                                 i, "open", 0, <<>>))

\* Connection._connect, "self.irc_socket.connect()": IRCSocket.connect opens
\* the socket or raises IRCSocketError, which nothing catches
ThreadOpen ==
    \E i \in DOMAIN conn.threads, opened \in BOOLEAN :
        /\ conn.threads[i].pc = "open"
        /\ IF ~truth(conn.irc_socket)
           THEN Step(EndThread(conn, i))
           ELSE IF opened
           THEN Step(SetThread([conn EXCEPT !.socks[conn.irc_socket.id] = "open"],
                               i, "register", 0, <<>>))
           ELSE Step(EndThread([conn EXCEPT !.sock_error = "open"], i))

\* Connection._connect, the NICK and USER lines, then loop()
ThreadRegister ==
    \E i \in DOMAIN conn.threads :
        /\ conn.threads[i].pc = "register"
        /\ IF send(conn).raised
           THEN Step(EndThread(conn, i))
           ELSE Step(SetThread(conn, i, "loop", 0, <<>>))

\* Connection.loop, "while self.irc_socket:" and the call of recv on the
\* socket the field holds at that moment
ThreadLoop ==
    \E i \in DOMAIN conn.threads :
        /\ conn.threads[i].pc = "loop"
        /\ IF ~truth(conn.irc_socket)
           THEN Step(EndThread(conn, i))
           ELSE Step(SetThread(conn, i, "recv", conn.irc_socket.id, <<>>))

\* Connection.loop, the return of IRCSocket.recv: a chunk, or an OSError
\* on a socket that failed or was closed
ThreadRecv ==
    \E i \in DOMAIN conn.threads, data \in Chunks :
        LET th == conn.threads[i]
            st == conn.socks[th.sock]
            m1 == [conn EXCEPT !.sock_error = "recv"]
        IN  /\ th.pc = "recv"
            /\ CASE st = "open" -> Step(SetThread(conn, i, "lines", 0, data))
                 [] st = "new" -> Step(EndThread(conn, i))
                 [] OTHER ->
                        IF conn.quitting THEN Step(EndThread(m1, i))
                        ELSE Step(EndThread(reconnect(m1, TRUE), i))

\* Connection.loop, one line of the chunk: handle_msg; an exception goes
\* to the error handler and the loop continues
ThreadLine ==
    \E i \in DOMAIN conn.threads :
        LET th == conn.threads[i]
            m1 == [handle_msg(conn, Head(th.lines)) EXCEPT !.raised = FALSE]
        IN  /\ th.pc = "lines"
            /\ IF Len(th.lines) = 1
               THEN Step(SetThread(m1, i, "loop", 0, <<>>))
               ELSE Step(SetThread(m1, i, "lines", 0, Tail(th.lines)))

\* the connection of an open socket is lost, or the server closes it
NetFail ==
    \E k \in DOMAIN conn.socks :
        /\ conn.socks[k] = "open"
        /\ Step([conn EXCEPT !.socks[k] = "failed"])

\* Connection.send_ping
send_ping(m) ==
    LET m1 == start_timer(m, "handle_ping_timeout")
    IN  IF truth(m.ping_response_timer) \/ send(m).raised THEN m
        ELSE [m1 EXCEPT !.ping_response_timer = TimerRef(m1.new)]

\* Connection.handle_ping_timeout
handle_ping_timeout(m) ==
    reconnect([m EXCEPT !.ping_response_timer = PyNone], FALSE)

\* a started Timer runs its function
TimerFire ==
    \E t \in DOMAIN conn.pending :
        LET func == conn.pending[t]
            m1 == [conn EXCEPT !.pending = Restrict(@, DOMAIN @ \ {t})]
        IN  CASE func = "_connect" -> Step(start_thread(m1))
              [] func = "send_ping" -> Step(send_ping(m1))
              [] OTHER -> Step(handle_ping_timeout(m1))

\* Client.stop: Connection.quit
Quit ==
    /\ conn.started
    /\ ~conn.quitting
    /\ IF truth(conn.reconnect_timer)
       THEN Step([cancel(conn, conn.reconnect_timer)
                      EXCEPT !.reconnect_timer = PyNone])
       ELSE /\ truth(conn.irc_socket)
            /\ Step([conn EXCEPT !.quitting = TRUE])

InitConn == Init

NextConn ==
    \/ ClientConnect
    \/ ThreadCheck
    \/ ThreadNew
    \/ ThreadOpen
    \/ ThreadRegister
    \/ ThreadLoop
    \/ ThreadRecv
    \/ ThreadLine
    \/ NetFail
    \/ TimerFire
    \/ Quit

SpecConn == InitConn /\ [][NextConn]_vars

PendingReconnects == {t \in DOMAIN conn.pending : conn.pending[t] = "_connect"}

ConnectAttempts ==
    {i \in DOMAIN conn.threads :
        conn.threads[i].pc \in {"connect", "new", "open", "register"}}

(***************************************************************************)
(* C8: a present socket (irc_socket not None) and a pending reconnect      *)
(* Timer never coexist.                                                    *)
(***************************************************************************)
C8_Exclusion == ~(truth(conn.irc_socket) /\ PendingReconnects # {})

(***************************************************************************)
(* C9: there is never more than one connect attempt scheduled (a pending   *)
(* reconnect Timer) or running (_connect not yet in the receive loop).     *)
(***************************************************************************)
C9_OnePending == Cardinality(PendingReconnects) + Cardinality(ConnectAttempts) <= 1

(***************************************************************************)
(* C10: after a socket error with no quit in progress the client is never  *)
(* left without a connect attempt running or scheduled: some thread or     *)
(* Timer is alive that makes the attempt.                                  *)
(***************************************************************************)
C10_Retried ==
    (conn.sock_error # "none" /\ ~conn.quitting) =>
        (conn.threads # <<>> \/ DOMAIN conn.pending # {})

(***************************************************************************)
(* C11: at no time are two threads of one Connection in the receive loop,  *)
(* reading from a socket or handling the lines of a chunk.                 *)
(***************************************************************************)
LoopThreads ==
    {i \in DOMAIN conn.threads : conn.threads[i].pc \in {"recv", "lines"}}

C11_OneLoopThread == Cardinality(LoopThreads) <= 1

(***************************************************************************)
(* SpecTick: Bot._tick on the thread of its Timer, statement by statement, *)
(* while the receive loop's thread handles messages of the channels.       *)
(* "for channel in self._reply_log" is a dict iterator: every step of it   *)
(* raises RuntimeError when the size of the dict is not the size it had    *)
(* when the iteration began.                                               *)
(***************************************************************************)
\* the ticker, or the send of its result, raises
Raises == [kind |-> "raise", val |-> <<>>]

\* Bot._tick lines 437-438, up to the creation of the iterator
TickBegin ==
    \E i \in 1..Len(timers) :
        /\ timers[i] = now
        /\ tick_thread = NoTickThread
        /\ timers' = RemoveAt(timers, i)
        /\ command_log' = EmptyDict
        /\ tick_thread' = [pc |-> "clear",
                           used |-> Cardinality(DOMAIN reply_log),
                           left |-> DOMAIN reply_log]
        /\ fires' = EmptyDict
        /\ ticked' = TRUE
        /\ ev' = NoEvent
        /\ UNCHANGED <<now, joined, commands, last_command, reply_log, prev,
                       tick_sent, chans, cmd_threads, conn, handled, said>>

\* Bot._tick lines 438-439: one step of the iterator and the loop body
TickClear ==
    /\ tick_thread.pc = "clear"
    /\ IF Cardinality(DOMAIN reply_log) # tick_thread.used
       THEN \* RuntimeError, outside the try block: the thread ends
            /\ tick_thread' = NoTickThread
            /\ UNCHANGED reply_log
       ELSE IF tick_thread.left = {}
       THEN /\ tick_thread' = [pc |-> "body"]
            /\ UNCHANGED reply_log
       ELSE \E c \in tick_thread.left :
            /\ reply_log' = [reply_log EXCEPT ![c] = EmptyDict]
            /\ tick_thread' = [tick_thread EXCEPT !.left = @ \ {c}]
    /\ ev' = NoEvent
    /\ UNCHANGED <<now, joined, timers, commands, command_log, last_command,
                   prev, ticked, tick_sent, fires, chans, cmd_threads, conn, handled, said>>

\* Bot._tick lines 441-448: the tickers in the try block, and the finally
\* block that starts the next Timer
TickBody ==
    \E ticker_result \in CmdResults \cup {Raises} :
        /\ tick_thread.pc = "body"
        /\ tick_sent' = IF ticker_result # Raises /\ truthy(ticker_result)
                        THEN send_msg(ticker_result, BotChan) ELSE <<>>
        /\ timers' = Append(timers, now + TICK_INTERVAL)
        /\ tick_thread' = NoTickThread
        /\ ev' = NoEvent
        /\ UNCHANGED <<now, joined, commands, command_log, last_command,
                       reply_log, prev, ticked, fires, chans, cmd_threads, conn, handled,
                       said>>

\* a message of a non-admin in one of the channels, answered by a replier
PrivmsgChan ==
    \E c \in ChanNames :
        /\ joined
        /\ handle_text("h1", c, <<RStr("A"), RNone>>)
        /\ UNCHANGED <<now, joined, timers, commands, chans, cmd_threads, conn,
                       tick_thread, handled>>

NextTick ==
    \/ Welcome
    \/ TickBegin
    \/ TickClear
    \/ TickBody
    \/ PrivmsgChan
    \/ Advance
    \/ Skip

SpecTick == Init /\ [][NextTick]_vars

(***************************************************************************)
(* C12: once the welcome has started the tick Timer, a tick Timer is       *)
(* pending or Bot._tick is running, at all times: every execution of       *)
(* Bot._tick arms a new Timer.                                             *)
(***************************************************************************)
C12_TickerArmed == joined => (timers # <<>> \/ tick_thread # NoTickThread)

(***************************************************************************)
(* SpecQuit: SpecConn with the whole of Connection.quit, called by         *)
(* Client.stop (a signal handler) in any state of the connection, once.    *)
(* ev keeps what the call did: the branch taken, the line sent, and the    *)
(* fields before and after.                                                *)
(***************************************************************************)
Reasons == {"Leaving", "Terminating, probably back soon!"}

quit(m, reason) ==
    IF truth(m.reconnect_timer)
    THEN [m |-> [cancel(m, m.reconnect_timer) EXCEPT !.reconnect_timer = PyNone],
          branch |-> "cancel", sent |-> <<>>]
    ELSE IF ~truth(m.irc_socket)
    THEN [m |-> m, branch |-> "warning", sent |-> <<>>]
    ELSE LET m1 == [m EXCEPT !.quitting = TRUE]
         IN  [m |-> m1, branch |-> "quit",
              sent |-> IF send(m1).raised THEN <<>> ELSE <<"QUIT :" \o reason>>]

QuitCall ==
    \E reason \in Reasons :
        LET r == quit(conn, reason)
        IN  /\ ev = NoEvent
            /\ conn' = Finish(r.m)
            /\ ev' = [kind |-> "quit", branch |-> r.branch, sent |-> r.sent,
                      reason |-> reason,
                      pending |-> PendingReconnects # {},
                      socket |-> truth(conn.irc_socket),
                      quitting |-> conn.quitting,
                      quitting_after |-> r.m.quitting,
                      same |-> (Finish(r.m) = conn)]
            /\ UNCHANGED <<now, joined, timers, commands, command_log,
                           last_command, reply_log, prev, ticked, tick_sent,
                           fires, handled, tick_thread, said, chans,
                           cmd_threads>>

NextQuit ==
    \/ ClientConnect
    \/ ThreadCheck
    \/ ThreadNew
    \/ ThreadOpen
    \/ ThreadRegister
    \/ ThreadLoop
    \/ ThreadRecv
    \/ ThreadLine
    \/ NetFail
    \/ TimerFire
    \/ QuitCall

SpecQuit == InitConn /\ [][NextQuit]_vars

(***************************************************************************)
(* C13: a call of Connection.quit has one of three outcomes.  With a       *)
(* reconnect pending: nothing is sent, the quitting flag is as it was, no  *)
(* reconnect is pending and no connect attempt is made from then on.       *)
(* Otherwise with a socket present: the flag is set and the one line QUIT  *)
(* with the reason is sent.  Otherwise nothing is sent and no field        *)
(* changes.                                                                *)
(***************************************************************************)
C13_QuitOutcomes ==
    ev.kind = "quit" =>
        IF ev.pending
        THEN /\ ev.sent = <<>>
             /\ ev.quitting_after = ev.quitting
             /\ PendingReconnects = {}
             /\ ConnectAttempts = {}
        ELSE IF ev.socket
        THEN /\ ev.quitting_after
             /\ ev.sent = <<"QUIT :" \o ev.reason>>
        ELSE /\ ev.sent = <<>>
             /\ ev.same

(***************************************************************************)
(* SpecSend: Bot._send_msg(msgs, targets) for every shape of its           *)
(* arguments.  msgs is a string or a list of strings; targets is a         *)
(* channel name, a list of names or '*'.  For '*' targets becomes a        *)
(* generator over the keys of server.channels, which the loop over the     *)
(* first message runs to its end: it yields nothing for the messages       *)
(* after the first.                                                        *)
(***************************************************************************)
MaxBatch == 2

MaxTargets == 2

Star == [kind |-> "str", val |-> <<"*">>]

\* the inner loop: one conn.send_msg(target, msg) per target
send_each(msg, targets) == [j \in 1..Len(targets) |-> <<targets[j], msg>>]

RECURSIVE for_msgs(_, _, _)
\* the outer loop; generator tells whether targets is consumed by its
\* first traversal
for_msgs(msgs, targets, generator) ==
    IF msgs = <<>> THEN <<>>
    ELSE send_each(Head(msgs), targets)
            \o for_msgs(Tail(msgs), IF generator THEN <<>> ELSE targets,
                        generator)

Bot_send_msg(msgs, targets, channels) ==
    for_msgs(msgs.val, IF targets = Star THEN channels ELSE targets.val,
             targets = Star)

SeqsUpTo(S, n) == UNION {[1..k -> S] : k \in 1..n}

Texts == {"A", "B"}

MsgInputs == {RStr(t) : t \in Texts} \cup {RList(ts) : ts \in SeqsUpTo(Texts, MaxBatch)}

TargetInputs ==
    {Star} \cup {RStr(c) : c \in ChanNames}
           \cup {RList(cs) : cs \in SeqsUpTo(ChanNames, MaxTargets)}

\* server.channels, its keys in the order add_channel inserted them
ChannelOrders ==
    {cs \in SeqsUpTo(ChanNames, Cardinality(ChanNames)) :
        \A i, j \in DOMAIN cs : i # j => cs[i] # cs[j]}

SendMsg ==
    \E msgs \in MsgInputs, targets \in TargetInputs, channels \in ChannelOrders :
        /\ ev' = [kind |-> "send", msgs |-> msgs, targets |-> targets,
                  channels |-> channels,
                  sends |-> Bot_send_msg(msgs, targets, channels)]
        /\ UNCHANGED <<now, joined, timers, commands, command_log,
                       last_command, reply_log, prev, ticked, tick_sent,
                       fires, handled, tick_thread, said, chans, cmd_threads, conn>>

NextSend == SendMsg

SpecSend == Init /\ [][NextSend]_vars

(***************************************************************************)
(* C14: Bot._send_msg makes exactly one send for every pair of a message   *)
(* of msgs and a target of targets ('*': every known channel), message by  *)
(* message and, for one message, target by target: k messages to c         *)
(* targets are k x c sends.                                                *)
(***************************************************************************)
C14_FanOut ==
    ev.kind = "send" =>
        LET M == ev.msgs.val
            T == IF ev.targets = Star THEN ev.channels ELSE ev.targets.val
            c == Len(T)
        IN  /\ Len(ev.sends) = Len(M) * c
            /\ \A n \in 1..Len(ev.sends) :
                  ev.sends[n] = <<T[((n - 1) % c) + 1], M[((n - 1) \div c) + 1]>>

(***************************************************************************)
(* C15, as stated: after a throttled invocation by a non-admin,            *)
(* _command_log[command] holds the time of that attempt and _last_command  *)
(* holds its (host, command, args).                                        *)
(***************************************************************************)
C15_UpdatedOnEveryAttempt ==
    (NonAdminCmd(ev) /\ ~ev.invoked) =>
        /\ ev.command \in DOMAIN command_log
        /\ command_log[ev.command] = ev.at
        /\ last_command = <<ev.host, ev.command, ev.args>>

(***************************************************************************)
(* C15, amended: a command attempt for which the handler is invoked sets   *)
(* _command_log[command] to its time and _last_command to its (host,       *)
(* command, args); a throttled attempt leaves _command_log and             *)
(* _last_command as they were.                                             *)
(***************************************************************************)
C15_UpdatedWhenInvoked ==
    [][(ev'.kind = "cmd" /\ ev'.found) =>
          IF ev'.invoked
          THEN /\ command_log' = DictSet(command_log, ev'.command, ev'.at)
               /\ last_command' = <<ev'.host, ev'.command, ev'.args>>
          ELSE UNCHANGED <<command_log, last_command>>]_vars

\* a throttled attempt whose time and triple differ from the log's entry
\* and the cursor, after it
C15_Witness ==
    /\ NonAdminCmd(ev)
    /\ ~ev.invoked
    /\ ev.args # <<>>
    /\ command_log[ev.command] = ev.logged
    /\ ev.logged < ev.at
    /\ last_command # <<ev.host, ev.command, ev.args>>

TestWords ==
    << <<"!", "b">>, <<"!", "a">>, <<"!", "a", "s">>, <<"!", "a", "s", "d">>,
       <<"!", "a", "s", "d", "f">>, <<"!", "a", "s", "d", "f", "g">> >>

\* dummy_command_func: 'test: ' + command.command
dummy_command_func(command) == RStr(<<"test: ">> \o command)

TestMsg ==
    /\ joined
    /\ handled < Len(TestWords)
    /\ handled' = handled + 1
    /\ LET word == TestWords[handled + 1]
           command == resolve(commands, word).command
       IN  handle_privmsg("h1", BotChan, word, <<>>, dummy_command_func(command))
    /\ UNCHANGED <<now, joined, timers, commands, chans, cmd_threads, conn, tick_thread>>

InitTest == InitBot /\ InitMembers /\ commands = {asdf}

NextTest ==
    \/ Welcome
    \/ TestMsg
    \/ Tick
    \/ Advance
    \/ Skip

SpecTest == InitTest /\ [][NextTest]_vars

(***************************************************************************)
(* C17: with the registry {'asdf': f}, each of the messages '!a', '!as',   *)
(* '!asd', '!asdf' of the same non-admin user, sent one after another,     *)
(* invokes f and causes one send to the message's target whose text is     *)
(* 'test: ' followed by the command word as it was typed.                  *)
(***************************************************************************)
C17_ShorthandTest ==
    (ev.kind = "cmd" /\ IsPrefixOf(TypedKey(ev.word), asdf)) =>
        /\ ev.invoked
        /\ ev.sent = << <<BotChan, <<"test: ">> \o ev.word>> >>

(***************************************************************************)
(* C18: when the repliers produce several replies (of different texts)     *)
(* for a non-admin's message, the list Bot._call_repliers returns holds,   *)
(* in their original order, exactly the replies whose text was not logged  *)
(* for the channel less than 2 seconds ago, and after the call the log of  *)
(* the channel holds the time of the call for every reply of the batch,    *)
(* dropped or not.                                                         *)
(***************************************************************************)
Distinct(s) == \A i, j \in DOMAIN s : i # j => s[i] # s[j]

C18_BatchFilter ==
    [][(/\ ev'.kind = "reply"
        /\ ~AdminHost(ev'.host)
        /\ Len(ev'.returned) >= 2
        /\ Distinct(ev'.returned)) =>
          LET c == ev'.channel
              old == IF c \in DOMAIN reply_log THEN reply_log[c] ELSE EmptyDict
              kept(x) == ~(x \in DOMAIN old /\ ev'.at - old[x] < SPAM_THROTTLE)
              texts == [i \in DOMAIN ev'.sent |-> ev'.sent[i][2]]
          IN  /\ texts = SelectSeq(ev'.returned, kept)
              /\ \A x \in Range(ev'.returned) :
                    /\ x \in DOMAIN reply_log'[c]
                    /\ reply_log'[c][x] = ev'.at]_vars

(***************************************************************************)
(* SpecRecv: IRCSocket.recv, read by read.  The underlying socket          *)
(* delivers chunks of bytes; a zero-length chunk is what socket.recv       *)
(* returns once the peer has closed the connection.  ev holds the call in  *)
(* progress: the bytes accumulated in data, the chunk last read, whether   *)
(* a zero-length chunk was read, and pc: "reading" (in the while loop),    *)
(* "returned", "IRCSocketError", or "IndexError" (data[-2] on one byte).   *)
(***************************************************************************)
MaxChunk == 2

MaxData == 4

CR == 13

LF == 10

\* CR, LF and the letter A
Bytes == {CR, LF, 65}

Chunks_recv == UNION {[1..n -> Bytes] : n \in 0..MaxChunk}

\* where the call stands once data holds these bytes: the while condition
\* of line 163 and the test of line 166
after_read(data) ==
    LET n == Len(data)
    IN  IF data = <<>> THEN "IRCSocketError"
        ELSE IF data[n] = LF THEN "returned"
        ELSE IF n = 1 THEN "IndexError"
        ELSE IF data[n - 1] = CR THEN "returned"
        ELSE "reading"

Receiving == ev.kind = "recv" /\ ev.pc = "reading"

recv_read(data, chunk, zero) ==
    [kind |-> "recv", data |-> data \o chunk, last |-> chunk,
     zero |-> (zero \/ chunk = <<>>), pc |-> after_read(data \o chunk)]

\* line 160: the first read of a call
RecvFirst ==
    \E chunk \in Chunks_recv :
        /\ ~Receiving
        /\ ev' = recv_read(<<>>, chunk, FALSE)
        /\ UNCHANGED <<now, joined, timers, commands, command_log,
                       last_command, reply_log, prev, ticked, tick_sent,
                       fires, handled, tick_thread, said, chans, cmd_threads, conn>>

\* line 164: one more read in the while loop
RecvMore ==
    \E chunk \in Chunks_recv :
        /\ Receiving
        /\ Len(ev.data) + Len(chunk) <= MaxData
        /\ ev' = recv_read(ev.data, chunk, ev.zero)
        /\ UNCHANGED <<now, joined, timers, commands, command_log,
                       last_command, reply_log, prev, ticked, tick_sent,
                       fires, handled, tick_thread, said, chans, cmd_threads, conn>>

NextRecv ==
    \/ RecvFirst
    \/ RecvMore

SpecRecv == Init /\ [][NextRecv]_vars

(***************************************************************************)
(* C19: when the socket delivers non-empty chunks only, IRCSocket.recv     *)
(* returns only data whose last two bytes are CR LF.                       *)
(***************************************************************************)
C19_ReturnsAtCRLF ==
    (ev.kind = "recv" /\ ev.pc = "returned" /\ ~ev.zero) =>
        /\ Len(ev.data) >= 2
        /\ ev.data[Len(ev.data) - 1] = CR
        /\ ev.data[Len(ev.data)] = LF

(***************************************************************************)
(* C20: a zero-length read, the first of a call or a later one, ends       *)
(* IRCSocket.recv with IRCSocketError: after it the call is not reading    *)
(* on and has not returned.                                                *)
(***************************************************************************)
C20_ZeroReadRaises ==
    (ev.kind = "recv" /\ ev.last = <<>>) => ev.pc = "IRCSocketError"

(***************************************************************************)
(* C21: keepalive supervision, for every step of the connection.  (a) A    *)
(* handled PING or PONG leaves no response Timer pending and exactly one   *)
(* inactivity Timer (send_ping) pending.  (b) When the inactivity Timer    *)
(* fires, a response Timer (handle_ping_timeout) is pending afterwards     *)
(* (send_ping starts it after the PING was sent).  (c) When the response Timer fires, the socket is   *)
(* dropped and a thread running _connect is started at once.  (d) Never    *)
(* are two response Timers pending.                                        *)
(***************************************************************************)
PingTimers(m) == {t \in DOMAIN m.pending : m.pending[t] = "send_ping"}

ResponseTimers(m) ==
    {t \in DOMAIN m.pending : m.pending[t] = "handle_ping_timeout"}

\* thread i handles a PING or PONG line in this step
HandlesPing(i) ==
    /\ i \in DOMAIN conn.threads
    /\ conn.threads[i].pc = "lines"
    /\ Head(conn.threads[i].lines) \in {"PING", "PONG"}
    /\ Len(conn'.threads) = Len(conn.threads)
    /\ conn'.threads[i] # conn.threads[i]

\* a Timer is cancelled only by reset_ping_timer, which starts a send_ping
\* Timer: a step that leaves fewer Timers of a kind and no send_ping Timer
\* is the firing of one
PingTimerFires ==
    /\ Cardinality(PingTimers(conn')) < Cardinality(PingTimers(conn))
    /\ PingTimers(conn') = {}

ResponseTimerFires ==
    /\ Cardinality(ResponseTimers(conn')) < Cardinality(ResponseTimers(conn))
    /\ PingTimers(conn') = {}

C21_Keepalive ==
    [][/\ (\E i \in DOMAIN conn.threads : HandlesPing(i)) =>
              /\ ResponseTimers(conn') = {}
              /\ Cardinality(PingTimers(conn')) = 1
       /\ PingTimerFires => Cardinality(ResponseTimers(conn')) = 1
       /\ ResponseTimerFires =>
              /\ ~truth(conn'.irc_socket)
              /\ Len(conn'.threads) = Len(conn.threads) + 1
       /\ Cardinality(ResponseTimers(conn')) <= 1]_vars

(***************************************************************************)
(* SpecLoop: Connection.loop on a socket that stays present, with and      *)
(* without a registered error_handler.  A line of a chunk is "" (split     *)
(* leaves it after the last CR LF), "ok" (handle_msg returns) or "bad"     *)
(* (handle_msg raises).  ev holds the loop: the chunk in data, the number  *)
(* i of its lines the for loop has taken, the lines of it handle_msg       *)
(* returned for (handled) and the calls of the error handler for it        *)
(* (errors), whether the error handler was called for an earlier chunk     *)
(* (earlier), and pc: "recv", "lines" or "ended" with its cause.           *)
(***************************************************************************)
MaxLines == 3

LineChunks == UNION {[1..n -> {"", "ok", "bad"}] : n \in 1..MaxLines}

\* faulty variant: the exception is raised again whatever is registered
except_clause_m(st) == [st EXCEPT !.pc = "ended", !.cause = "handler"]

\* lines 257-262: the except clause around handle_msg
except_clause(st) ==
    IF st.handler
    THEN [st EXCEPT !.errors = @ + 1]
    ELSE [st EXCEPT !.pc = "ended", !.cause = "handler"]

\* lines 249-262: one turn of "for msg in data.split('\r\n')"
loop_line(st) ==
    LET msg == st.data[st.i + 1]
        st1 == [st EXCEPT !.i = @ + 1]
        st2 == CASE msg = "" -> st1
                 [] msg = "ok" -> [st1 EXCEPT !.handled = @ + 1]
                 [] OTHER -> except_clause(st1)
    IN  IF st2.pc # "ended" /\ st2.i = Len(st2.data)
        THEN [st2 EXCEPT !.pc = "recv"]
        ELSE st2

LoopFrame ==
    UNCHANGED <<now, joined, timers, commands, command_log, last_command,
                reply_log, prev, ticked, tick_sent, fires, handled,
                tick_thread, said, chans, cmd_threads, conn>>

\* Connection._connect calls loop(); error_handler is set (bot.Bot) or
\* None (irc.Client alone)
LoopStart ==
    \E handler \in BOOLEAN :
        /\ ev = NoEvent
        /\ ev' = [kind |-> "loop", handler |-> handler, pc |-> "recv",
                  data |-> <<>>, i |-> 0, handled |-> 0, errors |-> 0,
                  earlier |-> FALSE, cause |-> "none"]
        /\ LoopFrame

\* lines 237-247: recv returns a chunk, or raises OSError and loop returns
LoopRecv ==
    \E data \in LineChunks, fails \in BOOLEAN :
        /\ ev.kind = "loop"
        /\ ev.pc = "recv"
        /\ ev' = IF fails
                 THEN [ev EXCEPT !.pc = "ended", !.cause = "OSError"]
                 ELSE [ev EXCEPT !.pc = "lines", !.data = data, !.i = 0,
                                 !.handled = 0, !.errors = 0,
                                 !.earlier = (@ \/ ev.errors > 0)]
        /\ LoopFrame

LoopLine ==
    /\ ev.kind = "loop"
    /\ ev.pc = "lines"
    /\ ev' = loop_line(ev)
    /\ LoopFrame

NextLoop ==
    \/ LoopStart
    \/ LoopRecv
    \/ LoopLine

SpecLoop == Init /\ [][NextLoop]_vars

(***************************************************************************)
(* C22: with an error handler registered, a line for which handle_msg      *)
(* raises causes one call of the error handler, and every other line of    *)
(* the chunk and of later chunks is handled: the loop ends only when recv  *)
(* fails.  Without an error handler the first such line ends the loop:     *)
(* no line after it is handled.                                            *)
(***************************************************************************)
Count(s, n, x) == Cardinality({k \in 1..n : s[k] = x})

C22_RaisingHandler ==
    ev.kind = "loop" =>
        IF ev.handler
        THEN /\ ev.errors = Count(ev.data, ev.i, "bad")
             /\ ev.handled = Count(ev.data, ev.i, "ok")
             /\ ev.pc = "ended" => ev.cause = "OSError"
             /\ ev.pc = "recv" => ev.i = Len(ev.data)
        ELSE /\ ev.errors = 0
             /\ Count(ev.data, ev.i, "bad") <= 1
             /\ Count(ev.data, ev.i, "bad") = 1 =>
                    /\ ev.data[ev.i] = "bad"
                    /\ ev.pc = "ended"
                    /\ ev.cause = "handler"
             /\ ev.handled = Count(ev.data, ev.i, "ok")

\* after a chunk with a raising line, the lines after it and a line of a
\* later chunk were handled
C22_Witness ==
    /\ ev.kind = "loop"
    /\ ev.handler
    /\ ev.earlier
    /\ ev.data = <<"bad", "ok", "">>
    /\ ev.errors = 1
    /\ ev.handled = 1
    /\ ev.pc = "recv"

(***************************************************************************)
(* SpecWelcome: the tick Timers over several connections.  Every           *)
(* successful connect or reconnect ends in a 001 line, and handle_msg      *)
(* calls the on_welcome callbacks for each: Bot._start_tick_timer runs     *)
(* again, on a bot whose Timer of the earlier welcome is still pending.    *)
(***************************************************************************)
MaxTickTimers == 3

\* the 001 line after a reconnect: self.timer = threading.Timer(...); start()
WelcomeAgain ==
    /\ joined
    /\ Len(timers) < MaxTickTimers
    /\ timers' = Append(timers, now + TICK_INTERVAL)
    /\ ev' = NoEvent
    /\ UNCHANGED <<now, joined, commands, command_log, last_command,
                   reply_log, prev, ticked, tick_sent, fires, chans, cmd_threads, conn,
                   tick_thread, handled, said>>

NextWelcome ==
    \/ Welcome
    \/ WelcomeAgain
    \/ Tick
    \/ Advance
    \/ Skip

SpecWelcome == Init /\ [][NextWelcome]_vars

(***************************************************************************)
(* C23: at most one tick Timer of the Bot is pending at any time, after    *)
(* any number of welcomes and ticks.                                       *)
(***************************************************************************)
C23_OneTickTimer == Len(timers) <= 1

(***************************************************************************)
(* C24: once Connection.quit has set the quitting flag and sent QUIT on a  *)
(* connected client, no step schedules a reconnect Timer or starts a       *)
(* thread running _connect.                                                *)
(***************************************************************************)
QuitSent == ev.kind = "quit" /\ ev.branch = "quit" /\ ev.sent # <<>>

C24_QuitIsFinal ==
    [][QuitSent =>
          /\ PendingReconnects' \subseteq PendingReconnects
          /\ Len(conn'.threads) <= Len(conn.threads)]_vars

(***************************************************************************)
(* SpecThreads: Bot._call_command statement by statement, for invocations  *)
(* that run concurrently (a handler declared threaded runs                 *)
(* _maybe_send_cmd_reply on a thread of its own, lines 359-365), beside    *)
(* Bot._tick on the thread of its Timer.  cmd_threads holds for each       *)
(* invocation its message, its local variable now (at), its position pc    *)
(* and how it ended.  The invocations are the command '!roll' without      *)
(* arguments, sent by users who are not admins.                            *)
(***************************************************************************)
MaxCmdThreads == 2

CmdHosts == {"h1", "h5"}

\* lines 359-365: the thread is started
CmdStart ==
    \E host \in CmdHosts :
        /\ joined
        /\ Len(cmd_threads) < MaxCmdThreads
        /\ cmd_threads' = Append(cmd_threads,
                                 [host |-> host, command |-> <<"!">> \o roll,
                                  args |-> <<>>, at |-> -1, pc |-> "test",
                                  outcome |-> "none"])
        /\ ev' = NoEvent
        /\ UNCHANGED <<now, joined, timers, commands, command_log,
                       last_command, reply_log, prev, ticked, tick_sent,
                       fires, handled, tick_thread, said, chans, conn>>

\* lines 376-377: now, and the membership test on self._command_log
CmdTest ==
    \E i \in DOMAIN cmd_threads :
        LET th == cmd_threads[i]
            in_log == th.command \in DOMAIN command_log /\ ~is_admin(th.host)
        IN  /\ th.pc = "test"
            /\ cmd_threads' = [cmd_threads EXCEPT ![i].at = now,
                                   ![i].pc = IF in_log THEN "read" ELSE "log"]
            /\ ev' = NoEvent
            /\ UNCHANGED <<now, joined, timers, commands, command_log,
                           last_command, reply_log, prev, ticked, tick_sent,
                           fires, handled, tick_thread, said, chans, conn>>

\* lines 378-385: the read of self._command_log[command.command], which
\* raises KeyError for a missing key, and the comparison
CmdRead ==
    \E i \in DOMAIN cmd_threads :
        LET th == cmd_threads[i]
            missing == th.command \notin DOMAIN command_log
            drop == throttled(command_log, last_command, th.at, th.host,
                              th.command, th.args, FALSE)
        IN  /\ th.pc = "read"
            /\ cmd_threads' =
                   [cmd_threads EXCEPT
                       ![i].pc = IF missing \/ drop THEN "done" ELSE "log",
                       ![i].outcome = IF missing THEN "KeyError"
                                      ELSE IF drop THEN "throttled" ELSE @]
            /\ ev' = NoEvent
            /\ UNCHANGED <<now, joined, timers, commands, command_log,
                           last_command, reply_log, prev, ticked, tick_sent,
                           fires, handled, tick_thread, said, chans, conn>>

\* lines 388-391: the cursor and the log are written, the handler is called
CmdLog ==
    \E i \in DOMAIN cmd_threads :
        LET th == cmd_threads[i]
        IN  /\ th.pc = "log"
            /\ last_command' = <<th.host, th.command, th.args>>
            /\ command_log' = log_call(command_log, th.command, th.at)
            /\ cmd_threads' = [cmd_threads EXCEPT ![i].pc = "done",
                                                  ![i].outcome = "invoked"]
            /\ ev' = NoEvent
            /\ UNCHANGED <<now, joined, timers, commands, reply_log, prev,
                           ticked, tick_sent, fires, handled, tick_thread,
                           said, chans, conn>>

NextThreads ==
    \/ Welcome
    \/ CmdStart
    \/ CmdTest
    \/ CmdRead
    \/ CmdLog
    \/ TickBegin
    \/ TickClear
    \/ TickBody
    \/ Advance
    \/ Skip

SpecThreads == Init /\ [][NextThreads]_vars

(***************************************************************************)
(* C25: when two invocations of the same command by non-admins run on      *)
(* threads of their own and come less than 2 seconds apart, with no tick   *)
(* since the welcome, the handler is invoked for at most one of them.      *)
(***************************************************************************)
C25_ThrottleUnderThreads ==
    ~ticked =>
        \A i, j \in DOMAIN cmd_threads :
            (/\ i # j
             /\ cmd_threads[i].outcome = "invoked"
             /\ cmd_threads[j].outcome = "invoked"
             /\ cmd_threads[i].command = cmd_threads[j].command)
                => ~(cmd_threads[j].at - cmd_threads[i].at \in
                        0..(SPAM_THROTTLE - 1))

(***************************************************************************)
(* C27: no dispatch fails on a missing key: an invocation that found its   *)
(* command in _command_log does not raise KeyError when it reads the       *)
(* entry, whenever Bot._tick runs.                                         *)
(***************************************************************************)
C27_NoMissingKey ==
    \A i \in DOMAIN cmd_threads : cmd_threads[i].outcome # "KeyError"

(***************************************************************************)
(* C26: Connection.send is not executed while irc_socket is None.  The     *)
(* steps of the connection that execute send besides the registration     *)
(* are the handling of a PING line (the PONG answer) and the firing of     *)
(* the inactivity Timer with no response Timer set (the keepalive PING).   *)
(***************************************************************************)
SendsPong ==
    \E i \in DOMAIN conn.threads :
        /\ conn.threads[i].pc = "lines"
        /\ Head(conn.threads[i].lines) = "PING"
        /\ Len(conn'.threads) = Len(conn.threads)
        /\ conn'.threads[i] # conn.threads[i]

SendsPing == PingTimerFires /\ ~truth(conn.ping_response_timer)

C26_SendNeedsSocket ==
    [][(SendsPong \/ SendsPing) => truth(conn.irc_socket)]_vars

====
